---- MODULE Spec2Model ----
(***************************************************************************)
(* A model of apexdir.py: the decoder of Apple II Apex disk images.  The   *)
(* script checks its arguments and the image size, slices the image into   *)
(* logical blocks through the sector interleave, decodes the directory of  *)
(* blocks 9..12, prints a listing and extracts every file.                 *)
(*                                                                         *)
(* Python lists and strings are sequences of integers (byte and character  *)
(* codes); the Python index i is the TLA+ index i+1.                       *)
(***************************************************************************)
EXTENDS Integers, Sequences, FiniteSets, TLC

VARIABLES
    argc,         \* len(sys.argv)
    image,        \* the bytes of the image file, kept as a description (see ord_image)
    pc,           \* the position of the script
    exit_status,  \* {} while the script runs, then {the exit status}
    sliced,       \* TRUE once blocks_str, blocks and raw_dir are built (lines 74-77)
    dir,          \* the decoded directory list
    stdout,       \* the lines printed so far
    files,        \* the output directory: normalized filename -> content
    entry_ix,     \* the position in dir of the entry being extracted (1-based)
    name,         \* the normalized filename of the entry being extracted
    textFile,     \* its classification
    b,            \* the block the inner loop is at
    f,            \* the bytes written to the open output file
    visited,      \* the indexes at which blocks_str was read for this entry
    arg,          \* the argument of a function applied on its own
    ret           \* and what it returned or raised

vars == <<argc, image, pc, exit_status, sliced, dir, stdout, files, entry_ix,
          name, textFile, b, f, visited, arg, ret>>

\* ---------------------------------------------------------------- bounds

\* the longest table given to invert_table and compose_table on their own
MaxTableLen == 3

\* the most directory slots an input image populates
MaxSlots == 2

\* ------------------------------------------------------ program constants

block_size == 256
block_count == 560
blocks_per_track == 16
files_per_dir == 48

\* Python's None in inverse_table; no index of a table is negative
NoneVal == -1

\* the end-of-file marker chr(0x1a)
CtrlZ == 26

\* exit statuses: sys.exit(1), sys.exit(2), an uncaught exception, a normal end;
\* exit_status is the empty set while the script runs, then {status}
UsageStatus == 1
SizeStatus == 2
TracebackStatus == 1
OkStatus == 0

\* ------------------------------------------------------ Python primitives

\* the smaller of two integers
Min2(x, y) == IF x < y THEN x ELSE y

\* seq[lo:hi] for 0 <= lo: clipped to the sequence, never an error
PySlice(seq, lo, hi) ==
    LET top == Min2(hi, Len(seq))
    IN  IF top <= lo THEN <<>> ELSE [i \in 1..(top - lo) |-> seq[lo + i]]

RECURSIVE find_in(_, _, _, _)
\* the first index in lo..hi-1 holding c, or -1 (by halving: the left half first)
find_in(bs, c, lo, hi) ==
    IF hi <= lo THEN -1
    ELSE IF hi = lo + 1 THEN (IF bs[lo + 1] = c THEN lo ELSE -1)
    ELSE LET mid == (lo + hi) \div 2
             left == find_in(bs, c, lo, mid)
         IN  IF left >= 0 THEN left ELSE find_in(bs, c, mid, hi)

\* bs.find(c): the first index holding c, or -1
find(bs, c) == find_in(bs, c, 0, Len(bs))

\* ----------------------------------------------------- permutation tables

RECURSIVE invert_loop(_, _, _)
invert_loop(table, i, inverse_table) ==
    IF i >= Len(table) THEN [exc |-> "", value |-> inverse_table]
    ELSE LET t == table[i + 1]
         IN  IF t < 0 \/ t >= Len(table)
             THEN [exc |-> "Table element(s) out of range", value |-> <<>>]
             ELSE IF inverse_table[t + 1] # NoneVal
             THEN [exc |-> "Table elements not unique", value |-> <<>>]
             ELSE invert_loop(table, i + 1, [inverse_table EXCEPT ![t + 1] = i])

RECURSIVE invert_loop_unchecked(_, _, _)
invert_loop_unchecked(table, i, inverse_table) ==
    IF i >= Len(table) THEN [exc |-> "", value |-> inverse_table]
    ELSE LET t == table[i + 1]
         IN  IF t < 0 \/ t >= Len(table)
             THEN [exc |-> "Table element(s) out of range", value |-> <<>>]
             ELSE invert_loop_unchecked(table, i + 1,
                                        [inverse_table EXCEPT ![t + 1] = i])

\* invert_table without the uniqueness test of line 18
invert_table_no_unique(table) ==
    invert_loop_unchecked(table, 0, [j \in 1..Len(table) |-> NoneVal])

\* invert_table(table): the inverse table, or the exception raised
invert_table(table) ==
    invert_loop(table, 0, [j \in 1..Len(table) |-> NoneVal])

\* table2[x] as Python indexes a list: negative x counts from the end
PyIndexOk(table2, x) == x >= -Len(table2) /\ x < Len(table2)
PyIndex(table2, x) == IF x < 0 THEN table2[Len(table2) + x + 1] ELSE table2[x + 1]

\* compose_table that forgets to go through table1
compose_table_skip(table1, table2) ==
    IF Len(table1) # Len(table2)
    THEN [exc |-> "Tables not same length", value |-> <<>>]
    ELSE [exc |-> "", value |-> [i \in 1..Len(table1) |-> table2[i]]]

\* compose_table(table1, table2): [table2[table1[i]] for i], or the exception
compose_table(table1, table2) ==
    IF Len(table1) # Len(table2)
    THEN [exc |-> "Tables not same length", value |-> <<>>]
    ELSE IF \E i \in 1..Len(table1) : ~PyIndexOk(table2, table1[i])
    THEN [exc |-> "IndexError", value |-> <<>>]
    ELSE [exc |-> "", value |-> [i \in 1..Len(table1) |-> PyIndex(table2, table1[i])]]

\* DOS 3.3 uses 2:1 interleave in descending order
dos33_to_phys == <<0, 13, 11, 9, 7, 5, 3, 1, 14, 12, 10, 8, 6, 4, 2, 15>>
phys_to_dos33 == invert_table(dos33_to_phys).value

\* Apple Pascal uses 2:1 interleave in ascending order
pascal_to_phys == <<0, 2, 4, 6, 8, 10, 12, 14, 1, 3, 5, 7, 9, 11, 13, 15>>
phys_to_pascal == invert_table(pascal_to_phys).value

\* CP/M uses 3:1 interleave in ascending order
cpm_to_phys == <<0, 3, 6, 9, 12, 15, 2, 5, 8, 11, 14, 1, 4, 7, 10, 13>>
phys_to_cpm == invert_table(cpm_to_phys).value

\* Apex uses same interleave as Pascal
pascal_to_dos33 == compose_table(pascal_to_phys, phys_to_dos33).value

\* block_to_offset with the track term not scaled to blocks
block_to_offset_unscaled(blk) ==
    ((blk \div blocks_per_track) +
     pascal_to_dos33[(blk % blocks_per_track) + 1]) * block_size

\* block_to_offset(b): the byte offset of logical block b in the image
block_to_offset(blk) ==
    ((blk \div blocks_per_track) * blocks_per_track +
     pascal_to_dos33[(blk % blocks_per_track) + 1]) * block_size

\* ------------------------------------------------------------- the image

(* The image file is an input, read once and never changed.  Its 143360     *)
(* bytes are kept as a description: len, its length; ents, the directory    *)
(* slots that are populated (slot -> name, status, first, last, date);      *)
(* sect, the 256-byte sectors of the file that hold data, by sector number  *)
(* (head, then fill, then one last byte); fill, the byte of every other     *)
(* sector.  The directory of an Apex disk sits in sectors 6, 5, 4, 3 of a   *)
(* DOS-order image file.                                                    *)
DirSectors == <<6, 5, 4, 3>>

\* byte j of the 1024-byte directory that the description ents stands for
DirByte(ents, j) ==
    IF j < 528 THEN
        (IF (j \div 11) \in DOMAIN ents THEN ents[j \div 11].name[(j % 11) + 1] ELSE 0)
    ELSE IF j < 576 THEN
        (IF (j - 528) \in DOMAIN ents THEN ents[j - 528].status ELSE 0)
    ELSE IF j < 672 THEN
        (LET i == (j - 576) \div 2
         IN  IF i \notin DOMAIN ents THEN 0
             ELSE IF (j - 576) % 2 = 0 THEN ents[i].first % 256
             ELSE ents[i].first \div 256)
    ELSE IF j < 768 THEN
        (LET i == (j - 672) \div 2
         IN  IF i \notin DOMAIN ents THEN 0
             ELSE IF (j - 672) % 2 = 0 THEN ents[i].last % 256
             ELSE ents[i].last \div 256)
    ELSE IF j >= 920 /\ j < 1016 THEN
        (LET i == (j - 920) \div 2
         IN  IF i \notin DOMAIN ents THEN 0
             ELSE IF (j - 920) % 2 = 0 THEN ents[i].date % 256
             ELSE ents[i].date \div 256)
    ELSE 0

\* byte i of a data sector
SectorByte(pat, i) ==
    IF i < Len(pat.head) THEN pat.head[i + 1]
    ELSE IF i = block_size - 1 THEN pat.last
    ELSE pat.fill

\* len(image)
len_image == image.len

\* ord(image[o]) for 0 <= o < len(image)
ord_image(o) ==
    LET s == o \div 256
        i == o % 256
    IN  IF \E d \in 1..4 : DirSectors[d] = s
        THEN DirByte(image.ents, 256 * ((CHOOSE d \in 1..4 : DirSectors[d] = s) - 1) + i)
        ELSE IF s \in DOMAIN image.sect THEN SectorByte(image.sect[s], i)
        ELSE image.fill

\* image[lo:hi] as a list of byte values
image_slice(lo, hi) ==
    LET top == Min2(hi, len_image)
    IN  IF top <= lo THEN <<>> ELSE [i \in 1..(top - lo) |-> ord_image(lo + i - 1)]

\* blocks_str[blk] for 0 <= blk < block_count
blocks_str(blk) == image_slice(block_to_offset(blk), block_to_offset(blk) + block_size)

\* blocks[blk][i]
blocks(blk, i) == ord_image(block_to_offset(blk) + i)

\* raw_dir[j]: blocks[9] + blocks[10] + blocks[11] + blocks[12]
raw_dir(j) == blocks(9 + (j \div block_size), j % block_size)

\* ------------------------------------------------------------ the decoder

RECURSIVE Digits(_)
Digits(n) == IF n < 10 THEN <<48 + n>> ELSE Append(Digits(n \div 10), 48 + (n % 10))

\* '%0wd' % n for n >= 0
ZeroPad(n, w) ==
    LET d == Digits(n)
    IN  IF Len(d) >= w THEN d ELSE [i \in 1..(w - Len(d)) |-> 48] \o d

\* decode_date with the month taken from the wrong bits
decode_date_month8(v) ==
    ZeroPad(1976 + v \div 512, 4) \o <<46>> \o ZeroPad((v \div 32) % 8, 2)
        \o <<46>> \o ZeroPad(v % 32, 2)

\* decode_date(v): '%04d.%02d.%02d' % (year, month, day)
decode_date(v) ==
    LET day == v % 32
        month == (v \div 32) % 16
        year == 1976 + v \div 512
    IN  ZeroPad(year, 4) \o <<46>> \o ZeroPad(month, 2) \o <<46>> \o ZeroPad(day, 2)

\* f.lower() on one character
lower(c) == IF c >= 65 /\ c <= 90 THEN c + 32 ELSE c

\* munge_filename(f): f.lower().replace(' ', '')
munge_filename(fname) ==
    SelectSeq([i \in 1..Len(fname) |-> lower(fname[i])], LAMBDA c : c # 32)

\* ('.bin', '.i2l', '.obj', '.sav', '.sys')
bin_extensions ==
    { <<46, 98, 105, 110>>, <<46, 105, 50, 108>>, <<46, 111, 98, 106>>,
      <<46, 115, 97, 118>>, <<46, 115, 121, 115>> }

\* nm.endswith(suffixes)
endswith(nm, suffixes) ==
    \E sfx \in suffixes :
        /\ Len(nm) >= Len(sfx)
        /\ SubSeq(nm, Len(nm) - Len(sfx) + 1, Len(nm)) = sfx

\* the entry of a slot i, lines 95-99
decode_entry(i) ==
    LET nm == [j \in 1..8 |-> raw_dir(i * 11 + j - 1)] \o <<46>>
                \o [j \in 1..3 |-> raw_dir(i * 11 + 8 + j - 1)]
        first_block == raw_dir(576 + 2 * i) + 256 * raw_dir(576 + 2 * i + 1)
        last_block == raw_dir(672 + 2 * i) + 256 * raw_dir(672 + 2 * i + 1)
        fdate == raw_dir(920 + 2 * i) + 256 * raw_dir(920 + 2 * i + 1)
    IN  [name |-> nm, first_block |-> first_block,
         size |-> last_block - first_block + 1, date |-> decode_date(fdate)]

RECURSIVE decode_dir_closed_from(_, _)
decode_dir_closed_from(i, acc) ==
    IF i >= files_per_dir THEN acc
    ELSE IF raw_dir(528 + i) = 0 \/ raw_dir(528 + i) > 127
    THEN decode_dir_closed_from(i + 1, acc)
    ELSE decode_dir_closed_from(i + 1, Append(acc, decode_entry(i)))

\* the loop of lines 90-99 skipping tentative entries (status > 127) too
decode_dir_closed_only == decode_dir_closed_from(0, <<>>)

RECURSIVE decode_dir_from(_, _)
decode_dir_from(i, acc) ==
    IF i >= files_per_dir THEN acc
    ELSE IF raw_dir(528 + i) = 0 THEN decode_dir_from(i + 1, acc)
    ELSE decode_dir_from(i + 1, Append(acc, decode_entry(i)))

\* the loop of lines 90-99
decode_dir == decode_dir_from(0, <<>>)

\* ---------------------------------------------------------- the extractor

\* open(nm, 'wb') that finds the bytes of the file opened before it
open_wb_keep(fs, nm, old) == old

\* the content of a file just opened with open(nm, 'wb'): empty
open_wb(fs, nm, old) == <<>>

\* the output directory with file nm holding content
put_file(fs, nm, content) ==
    [x \in (DOMAIN fs) \cup {nm} |-> IF x = nm THEN content ELSE fs[x]]

\* one pass of the inner loop that scans every file for Ctrl-Z
block_step_all_text(tf, blk, out) ==
    IF blk >= block_count THEN [out |-> out, ctl |-> "raise"]
    ELSE LET bs == blocks_str(blk)
             cz == find(bs, CtrlZ)
         IN  IF cz >= 0
             THEN [out |-> out \o PySlice(bs, 0, cz), ctl |-> "break"]
             ELSE [out |-> out \o bs, ctl |-> "next"]

\* one pass of the inner loop over a blocks_str that wraps around
block_step_wrap(tf, blk, out) ==
    LET bs == blocks_str(blk % block_count)
        cz == find(bs, CtrlZ)
    IN  IF tf /\ cz >= 0
        THEN [out |-> out \o PySlice(bs, 0, cz), ctl |-> "break"]
        ELSE [out |-> out \o bs, ctl |-> "next"]

\* one pass of the inner loop that writes a text file's last block whole
block_step_whole(tf, blk, out) ==
    IF blk >= block_count THEN [out |-> out, ctl |-> "raise"]
    ELSE [out |-> out \o blocks_str(blk),
          ctl |-> IF tf /\ find(blocks_str(blk), CtrlZ) >= 0 THEN "break" ELSE "next"]

\* one pass of the inner loop, lines 123-129: what the file holds after it
\* and whether the loop goes on, breaks, or blocks_str[blk] raises IndexError
block_step(tf, blk, out) ==
    IF blk >= block_count THEN [out |-> out, ctl |-> "raise"]
    ELSE LET bs == blocks_str(blk)
             cz == find(bs, CtrlZ)
         IN  IF tf /\ cz >= 0
             THEN [out |-> out \o PySlice(bs, 0, cz), ctl |-> "break"]
             ELSE [out |-> out \o bs, ctl |-> "next"]

RECURSIVE extract_from(_, _, _, _)
extract_from(tf, blk, stop, out) ==
    IF blk >= stop THEN [out |-> out, raised |-> FALSE]
    ELSE LET r == block_step(tf, blk, out)
         IN  IF r.ctl = "raise" THEN [out |-> r.out, raised |-> TRUE]
             ELSE IF r.ctl = "break" THEN [out |-> r.out, raised |-> FALSE]
             ELSE extract_from(tf, blk + 1, stop, r.out)

RECURSIVE extract_all(_, _, _)
\* the loop of lines 115-129 over a list of entries: the output directory
\* it leaves and whether it ended in an exception
extract_all(entries, fs, prev) ==
    IF entries = <<>> THEN [files |-> fs, raised |-> FALSE]
    ELSE LET e == Head(entries)
             nm == munge_filename(e.name)
             r == extract_from(~endswith(nm, bin_extensions), e.first_block,
                               e.first_block + e.size, open_wb(fs, nm, prev))
         IN  IF r.raised THEN [files |-> put_file(fs, nm, r.out), raised |-> TRUE]
             ELSE extract_all(Tail(entries), put_file(fs, nm, r.out), r.out)

\* ------------------------------------------------------------ the inputs

\* directory slots as an image populates them: the name bytes, the status
\* byte and the first block, last block and packed date words
Slot(nm, st, fb, lb, dt) ==
    [name |-> nm, status |-> st, first |-> fb, last |-> lb, date |-> dt]

EntryChoices ==
    { \* HELLO   .TXT  one block of text
      Slot(<<72, 69, 76, 76, 79, 32, 32, 32, 84, 88, 84>>, 1, 17, 17, 0),
      \* hello   .txt  another block under the same normalized name
      Slot(<<104, 101, 108, 108, 111, 32, 32, 32, 116, 120, 116>>, 1, 18, 18, 549),
      \* NOTE    .DOC  two blocks of text, status tentative
      Slot(<<78, 79, 84, 69, 32, 32, 32, 32, 68, 79, 67>>, 128, 17, 18, 549),
      \* PROG    .BIN  two blocks of binary, status tentative
      Slot(<<80, 82, 79, 71, 32, 32, 32, 32, 66, 73, 78>>, 128, 18, 19, 549),
      \* A B     .Sys  binary, mixed case and an embedded space
      Slot(<<65, 32, 66, 32, 32, 32, 32, 32, 83, 121, 115>>, 255, 18, 18, 65535),
      \* DATA    .OBJ  last_block below first_block - 1: size -1
      Slot(<<68, 65, 84, 65, 32, 32, 32, 32, 79, 66, 74>>, 1, 18, 16, 0),
      \* EMPTY   .TXT  last_block = first_block - 1: size 0
      Slot(<<69, 77, 80, 84, 89, 32, 32, 32, 84, 88, 84>>, 1, 18, 17, 0),
      \* BIG     .SAV  runs past the last block of the image
      Slot(<<66, 73, 71, 32, 32, 32, 32, 32, 83, 65, 86>>, 1, 559, 560, 549),
      \* LONG    .TXT  text that runs past the last block of the image
      Slot(<<76, 79, 78, 71, 32, 32, 32, 32, 84, 88, 84>>, 1, 558, 561, 549),
      \* GONE    .TXT  an unused slot with every other field set
      Slot(<<71, 79, 78, 69, 32, 32, 32, 32, 84, 88, 84>>, 0, 17, 18, 549) }

\* the slots an image populates, in the order they are taken
SlotOrder == <<0, 47, 1, 46>>

Pattern(hd, fl, lst) == [head |-> hd, fill |-> fl, last |-> lst]

\* sector data: logical blocks 17, 18, 19 are sectors 30, 29, 28 of the file;
\* logical blocks 558 and 559 are sectors 545 and 559
Layouts ==
    { \* block 17 is "hi" Ctrl-Z and zeros; no Ctrl-Z elsewhere
      (30 :> Pattern(<<104, 105, 26>>, 0, 0) @@ 29 :> Pattern(<<>>, 66, 66)
         @@ 28 :> Pattern(<<>>, 67, 67)),
      \* Ctrl-Z at index 2 of block 18 and again later; block 559 starts with it
      (30 :> Pattern(<<>>, 65, 65) @@ 29 :> Pattern(<<66, 67, 26, 68, 26>>, 69, 26)
         @@ 28 :> Pattern(<<>>, 67, 67) @@ 559 :> Pattern(<<26>>, 90, 90)),
      \* Ctrl-Z as the last byte of block 17 and the first of block 19
      (30 :> Pattern(<<>>, 65, 26) @@ 29 :> Pattern(<<>>, 66, 66)
         @@ 28 :> Pattern(<<26, 26>>, 67, 67) @@ 545 :> Pattern(<<>>, 88, 26)) }

\* images of the right size
GoodImages ==
    { [len |-> block_size * block_count, ents |-> e, sect |-> l, fill |-> 229] :
        e \in UNION { [ {SlotOrder[j] : j \in 1..n} -> EntryChoices ] : n \in 0..MaxSlots },
        l \in Layouts }

\* images of a wrong size
BadImages ==
    { [g EXCEPT !.len = n] :
        g \in { x \in GoodImages : Cardinality(DOMAIN x.ents) <= 1 },
        n \in {0, block_size * block_count - 1, block_size * block_count + 1} }

\* ------------------------------------------------------------ the script

Init ==
    /\ \/ argc = 2 /\ image \in GoodImages \cup BadImages
       \/ argc \in {1, 3} /\ image \in { x \in GoodImages : DOMAIN x.ents = {} }
    /\ pc = "args"
    /\ exit_status = {}
    /\ sliced = FALSE
    /\ dir = <<>>
    /\ stdout = <<>>
    /\ files = <<>>
    /\ entry_ix = 0
    /\ name = <<>>
    /\ textFile = FALSE
    /\ b = 0
    /\ f = <<>>
    /\ visited = <<>>
    /\ arg = <<>>
    /\ ret = <<>>

\* lines 51-56: the usage error, or the image is read
CheckArgs ==
    /\ pc = "args"
    /\ IF argc # 2
       THEN pc' = "usage" /\ exit_status' = {UsageStatus}
       ELSE pc' = "size" /\ UNCHANGED exit_status
    /\ UNCHANGED <<argc, image, sliced, dir, stdout, files, entry_ix, name,
                   textFile, b, f, visited, arg, ret>>

\* lines 63-65 rejecting only an image that is too short
CheckSizeShort ==
    /\ pc = "size"
    /\ IF len_image < block_size * block_count
       THEN pc' = "wrong size" /\ exit_status' = {SizeStatus}
       ELSE pc' = "slice" /\ UNCHANGED exit_status
    /\ UNCHANGED <<argc, image, sliced, dir, stdout, files, entry_ix, name,
                   textFile, b, f, visited, arg, ret>>

\* lines 63-65
CheckSize ==
    /\ pc = "size"
    /\ IF len_image # block_size * block_count
       THEN pc' = "wrong size" /\ exit_status' = {SizeStatus}
       ELSE pc' = "slice" /\ UNCHANGED exit_status
    /\ UNCHANGED <<argc, image, sliced, dir, stdout, files, entry_ix, name,
                   textFile, b, f, visited, arg, ret>>

\* lines 74-77: blocks_str, blocks and raw_dir are built from the image
BuildBlocks ==
    /\ pc = "slice"
    /\ sliced' = TRUE
    /\ pc' = "decode"
    /\ UNCHANGED <<argc, image, exit_status, dir, stdout, files, entry_ix, name,
                   textFile, b, f, visited, arg, ret>>

\* lines 90-102
DecodeDirectory ==
    /\ pc = "decode"
    /\ dir' = decode_dir
    /\ pc' = "list"
    /\ UNCHANGED <<argc, image, exit_status, sliced, stdout, files, entry_ix, name,
                   textFile, b, f, visited, arg, ret>>

\* lines 104-107: the two header lines and one line per entry
PrintListing ==
    /\ pc = "list"
    /\ stdout' = <<[line |-> "filename     start  size  date     "],
                   [line |-> "------------ ----- ----- ----------"]>>
                 \o [i \in 1..Len(dir) |-> [line |-> "entry", entry |-> dir[i]]]
    /\ entry_ix' = 1
    /\ pc' = "extract"
    /\ UNCHANGED <<argc, image, exit_status, sliced, dir, files, name,
                   textFile, b, f, visited, arg, ret>>

\* lines 115-121: the next entry's name is normalized, printed and classified
\* and its output file opened for writing
OpenEntry ==
    /\ pc = "extract"
    /\ entry_ix <= Len(dir)
    /\ LET nm == munge_filename(dir[entry_ix].name)
       IN  /\ name' = nm
           /\ stdout' = Append(stdout, [line |-> "name", name |-> nm])
           /\ textFile' = ~endswith(nm, bin_extensions)
           /\ f' = open_wb(files, nm, f)
           /\ files' = put_file(files, nm, open_wb(files, nm, f))
    /\ b' = dir[entry_ix].first_block
    /\ visited' = <<>>
    /\ pc' = "block"
    /\ UNCHANGED <<argc, image, exit_status, sliced, dir, entry_ix, arg, ret>>

\* lines 122-129: one pass of the inner loop; an IndexError leaves the with
\* block, which closes the file, and ends the script
BlockStep ==
    /\ pc = "block"
    /\ b < dir[entry_ix].first_block + dir[entry_ix].size
    /\ LET r == block_step(textFile, b, f)
       IN  /\ f' = r.out
           /\ IF r.ctl = "raise"
              THEN /\ pc' = "error"
                   /\ exit_status' = {TracebackStatus}
                   /\ files' = put_file(files, name, r.out)
                   /\ UNCHANGED <<b, visited>>
              ELSE /\ pc' = IF r.ctl = "break" THEN "close" ELSE "block"
                   /\ b' = IF r.ctl = "break" THEN b ELSE b + 1
                   /\ visited' = Append(visited, b)
                   /\ UNCHANGED <<exit_status, files>>
    /\ UNCHANGED <<argc, image, sliced, dir, stdout, entry_ix, name, textFile, arg, ret>>

\* line 122: the range is used up
EndBlocks ==
    /\ pc = "block"
    /\ b >= dir[entry_ix].first_block + dir[entry_ix].size
    /\ pc' = "close"
    /\ UNCHANGED <<argc, image, exit_status, sliced, dir, stdout, files, entry_ix,
                   name, textFile, b, f, visited, arg, ret>>

\* line 121: the with block is left and the file closed
CloseFile ==
    /\ pc = "close"
    /\ files' = put_file(files, name, f)
    /\ entry_ix' = entry_ix + 1
    /\ pc' = "extract"
    /\ UNCHANGED <<argc, image, exit_status, sliced, dir, stdout, name, textFile,
                   b, f, visited, arg, ret>>

\* the end of the script
Finish ==
    /\ pc = "extract"
    /\ entry_ix > Len(dir)
    /\ pc' = "done"
    /\ exit_status' = {OkStatus}
    /\ UNCHANGED <<argc, image, sliced, dir, stdout, files, entry_ix, name,
                   textFile, b, f, visited, arg, ret>>

Next ==
    \/ CheckArgs
    \/ CheckSize
    \/ BuildBlocks
    \/ DecodeDirectory
    \/ PrintListing
    \/ OpenEntry
    \/ BlockStep
    \/ EndBlocks
    \/ CloseFile
    \/ Finish

Spec == Init /\ [][Next]_vars

\* ------------------------------------------- functions applied on their own

\* tables of every length up to MaxTableLen over -1..len, and the literal ones
TableInputs ==
    UNION { [1..n -> -1..n] : n \in 0..MaxTableLen }
        \cup {dos33_to_phys, pascal_to_phys, cpm_to_phys}

IdleScript ==
    /\ argc = 2
    /\ exit_status = {}
    /\ dir = <<>>
    /\ stdout = <<>>
    /\ files = <<>>
    /\ entry_ix = 0
    /\ name = <<>>
    /\ textFile = FALSE
    /\ b = 0
    /\ f = <<>>
    /\ visited = <<>>

InitTables ==
    /\ IdleScript
    /\ image = <<>>
    /\ sliced = FALSE
    /\ pc = "call"
    /\ arg \in TableInputs
    /\ ret = [exc |-> "", value |-> <<>>]

\* invert_table(arg)
CallInvert ==
    /\ pc = "call"
    /\ ret' = invert_table(arg)
    /\ pc' = IF ret'.exc = "" THEN "inverted" ELSE "raised"
    /\ UNCHANGED <<argc, image, exit_status, sliced, dir, stdout, files, entry_ix,
                   name, textFile, b, f, visited, arg>>

\* compose_table(arg, invert_table(arg))
CallCompose ==
    /\ pc = "inverted"
    /\ ret' = compose_table(arg, ret.value)
    /\ pc' = "composed"
    /\ UNCHANGED <<argc, image, exit_status, sliced, dir, stdout, files, entry_ix,
                   name, textFile, b, f, visited, arg>>

NextTables == CallInvert \/ CallCompose

SpecTables == InitTables /\ [][NextTables]_vars

InitBlock ==
    /\ IdleScript
    /\ image = <<>>
    /\ sliced = FALSE
    /\ pc = "call"
    /\ arg \in 0..(block_count - 1)
    /\ ret = 0

\* block_to_offset(arg)
CallBlockToOffset ==
    /\ pc = "call"
    /\ ret' = block_to_offset(arg)
    /\ pc' = "returned"
    /\ UNCHANGED <<argc, image, exit_status, sliced, dir, stdout, files, entry_ix,
                   name, textFile, b, f, visited, arg>>

NextBlock == CallBlockToOffset

SpecBlock == InitBlock /\ [][NextBlock]_vars

\* images with one entry, in the last slot, holding each packed date
DateImages ==
    { [len |-> block_size * block_count,
       ents |-> (47 :> Slot(<<72, 69, 76, 76, 79, 32, 32, 32, 84, 88, 84>>, 1, 17, 17, v)),
       sect |-> <<>>, fill |-> 0] : v \in 0..65535 }

InitDate ==
    /\ IdleScript
    /\ image \in DateImages
    /\ sliced = TRUE
    /\ pc = "decode"
    /\ arg = <<>>
    /\ ret = <<>>

NextDate == DecodeDirectory

SpecDate == InitDate /\ [][NextDate]_vars

\* ------------------------------------------------------------- the claims

\* the byte sequence holds the end-of-file marker 0x1A
HasCtrlZ(bytes) == \E i \in 1..Len(bytes) : bytes[i] = 26

\* the bytes before the first 0x1A, or all of them when there is none
CutAtCtrlZ(bytes) ==
    IF HasCtrlZ(bytes)
    THEN SubSeq(bytes, 1,
                (CHOOSE i \in 1..Len(bytes) :
                    bytes[i] = 26 /\ \A j \in 1..(i - 1) : bytes[j] # 26) - 1)
    ELSE bytes

RECURSIVE ConcatBlocks(_, _)
\* logical blocks lo..hi-1 of the image, one after the other
ConcatBlocks(lo, hi) ==
    IF lo >= hi THEN <<>> ELSE blocks_str(lo) \o ConcatBlocks(lo + 1, hi)

\* the entry's extension on disk is one of BIN, I2L, OBJ, SAV, SYS in any case
BinaryOnDisk(e) ==
    [i \in 1..3 |-> lower(e.name[9 + i])] \in
        { <<98, 105, 110>>, <<105, 50, 108>>, <<111, 98, 106>>,
          <<115, 97, 118>>, <<115, 121, 115>> }

\* the filename on disk, lower-cased and without its spaces
Normalized(e) == SelectSeq([i \in 1..12 |-> lower(e.name[i])], LAMBDA c : c # 32)

\* the first block number past the entry's range that the image still holds
RangeEnd(e) == Min2(e.first_block + e.size, 560)

\* extraction of the entry reaches a block the image does not hold
Overruns(e) ==
    /\ e.size >= 1
    /\ e.first_block + e.size > 560
    /\ BinaryOnDisk(e) \/ ~HasCtrlZ(ConcatBlocks(e.first_block, 560))

\* the script is past the decoding of the directory
Decoded == pc \in {"list", "extract", "block", "close", "done", "error"}

\* the output file of entry dir[entry_ix - 1] has just been closed
JustClosed == pc = "extract" /\ entry_ix > 1

\* the script has ended after the extraction pass, normally or in an exception
Ended == pc \in {"done", "error"}

\* the slots whose status byte is nonzero
ActiveSlots == { i \in 0..47 : raw_dir(528 + i) # 0 }

\* the n-th active slot in ascending order
NthActive(n) == CHOOSE i \in ActiveSlots : Cardinality({ j \in ActiveSlots : j < i }) = n - 1

\* every order of a list
Orders(seq) == { [i \in 1..Len(seq) |-> seq[p[i]]] : p \in Permutations(1..Len(seq)) }

RECURSIVE ParseInt(_)
\* the number a string of decimal digits denotes
ParseInt(digits) ==
    IF digits = <<>> THEN 0
    ELSE 10 * ParseInt(SubSeq(digits, 1, Len(digits) - 1)) + (digits[Len(digits)] - 48)

\* C1: block_to_offset is injective over the block numbers 0..559, and every
\* offset it returns is a multiple of 256 in [0, 143360).
C1_BlockOffsetInjective ==
    pc = "returned" =>
        /\ ret % 256 = 0
        /\ ret >= 0 /\ ret < 143360
        /\ \A other \in 0..559 : block_to_offset(other) = ret => other = arg

\* block 17, the second block of track 1, sits in sector 30 of the file
C1_Witness == pc = "returned" /\ arg = 17 /\ ret = 7680

\* C2: when a text entry (extension not BIN, I2L, OBJ, SAV, SYS) has been
\* extracted, its blocks were visited in ascending order from first_block, every
\* block visited before the last holds no 0x1A, and the output file is the
\* concatenation of the entry's blocks in the image cut at the first 0x1A (the
\* whole concatenation when there is none); the output holds no 0x1A.
C2_TextCutAtCtrlZ ==
    (JustClosed \/ pc = "error") =>
        LET e == IF pc = "error" THEN dir[entry_ix] ELSE dir[entry_ix - 1]
            all == ConcatBlocks(e.first_block, RangeEnd(e))
        IN  ~BinaryOnDisk(e) =>
                /\ files[Normalized(e)] = CutAtCtrlZ(all)
                /\ ~HasCtrlZ(files[Normalized(e)])
                /\ visited = [i \in 1..Len(visited) |-> e.first_block + i - 1]
                /\ \A i \in 1..(Len(visited) - 1) : ~HasCtrlZ(blocks_str(visited[i]))
                /\ IF HasCtrlZ(all)
                   THEN HasCtrlZ(blocks_str(visited[Len(visited)]))
                   ELSE Len(visited) * 256 = Len(all)

\* a text file of two blocks cut inside its second block
C2_Witness ==
    /\ JustClosed
    /\ ~BinaryOnDisk(dir[entry_ix - 1])
    /\ Len(visited) = 2
    /\ Len(files[name]) = 258

\* C3 as stated: the output file of a binary entry whose block range lies
\* inside the image is its blocks in full and in order, 256*size bytes.
C3_BinaryWholeAsStated ==
    JustClosed =>
        LET e == dir[entry_ix - 1]
        IN  (BinaryOnDisk(e) /\ e.first_block + e.size <= 560) =>
                /\ files[Normalized(e)] = ConcatBlocks(e.first_block, e.first_block + e.size)
                /\ Len(files[Normalized(e)]) = 256 * e.size

\* C3 amended: the output file of a binary entry whose block range lies inside
\* the image is its blocks in full and in order, 0x1A bytes included: 256*size
\* bytes when size >= 0, and no bytes when size is negative.
C3_BinaryWhole ==
    JustClosed =>
        LET e == dir[entry_ix - 1]
        IN  (BinaryOnDisk(e) /\ e.first_block + e.size <= 560) =>
                /\ files[Normalized(e)] = ConcatBlocks(e.first_block, e.first_block + e.size)
                /\ Len(files[Normalized(e)]) = IF e.size >= 0 THEN 256 * e.size ELSE 0

\* a binary file of two blocks written whole with a 0x1A in it
C3_Witness ==
    /\ JustClosed
    /\ BinaryOnDisk(dir[entry_ix - 1])
    /\ dir[entry_ix - 1].size = 2
    /\ Len(files[name]) = 512
    /\ HasCtrlZ(files[name])

\* C4: the decoded list holds one entry for each slot whose status byte is
\* nonzero, in ascending slot order, and none for a slot whose status is 0;
\* each entry carries what the image holds for its slot.
C4_ActiveSlotsInOrder ==
    Decoded =>
        /\ Len(dir) = Cardinality(ActiveSlots)
        /\ \A n \in 1..Len(dir) : dir[n] = decode_entry(NthActive(n))
        /\ \A n \in 1..Len(dir) :
             LET s == image.ents[NthActive(n)]
             IN  /\ s.status # 0
                 /\ dir[n].name = SubSeq(s.name, 1, 8) \o <<46>> \o SubSeq(s.name, 9, 11)
                 /\ dir[n].first_block = s.first
                 /\ dir[n].size = s.last - s.first + 1
        /\ \A i \in DOMAIN image.ents : image.ents[i].status = 0 => i \notin ActiveSlots

\* slot 0 is unused with its other fields set, and a later slot is active
C4_Witness ==
    /\ pc = "list"
    /\ Len(dir) = 1
    /\ raw_dir(528) = 0
    /\ raw_dir(576) # 0
    /\ raw_dir(0) # 0

\* C5: an image whose length is not 143360 is rejected with status 2, which is
\* neither 0 nor the usage error's status, before blocks are sliced, the
\* directory decoded, a line printed or a file written.
C5_WrongSizeRejected ==
    (argc = 2 /\ image.len # 143360 /\ pc \notin {"args", "size"}) =>
        /\ pc = "wrong size"
        /\ exit_status = {2}
        /\ exit_status \cap {0, UsageStatus} = {}
        /\ ~sliced
        /\ dir = <<>>
        /\ stdout = <<>>
        /\ files = <<>>

\* an image one byte short has been rejected
C5_Witness == pc = "wrong size" /\ image.len = 143359 /\ DOMAIN image.ents # {}

\* C6 as stated: no entry makes the script raise, and when the script has ended
\* every entry of the directory has its output file.
C6_NeverRaisesAsStated ==
    /\ pc # "error"
    /\ Ended => \A n \in 1..Len(dir) : Normalized(dir[n]) \in DOMAIN files

\* C6 amended: entries are not validated, and an entry with last_block below
\* first_block gives an empty file and the run goes on; but the script ends in
\* an uncaught IndexError exactly when an entry's extraction reaches block 560:
\* that entry's file holds its blocks below 560 and no later entry is extracted.
C6_RaisesOnlyPastImage ==
    /\ pc = "error" =>
         /\ Overruns(dir[entry_ix])
         /\ \A n \in 1..(entry_ix - 1) : ~Overruns(dir[n])
         /\ b = 560
         /\ exit_status = {1}
         /\ files[Normalized(dir[entry_ix])] = ConcatBlocks(dir[entry_ix].first_block, 560)
         /\ DOMAIN files = { Normalized(dir[n]) : n \in 1..entry_ix }
    /\ pc = "done" =>
         /\ \A n \in 1..Len(dir) : ~Overruns(dir[n])
         /\ DOMAIN files = { Normalized(dir[n]) : n \in 1..Len(dir) }
    /\ JustClosed =>
         (dir[entry_ix - 1].size <= 0 => files[Normalized(dir[entry_ix - 1])] = <<>>)

\* the script ended in the exception with an entry left unextracted
C6_Witness ==
    /\ pc = "error"
    /\ entry_ix < Len(dir)
    /\ Normalized(dir[Len(dir)]) \notin DOMAIN files

\* C7 as stated, on the runs that end normally: the files left by the
\* extraction pass are the same for every order in which the entries are
\* extracted.
C7_AnyOrderAsStated ==
    pc = "done" =>
        \A order \in Orders(dir) : extract_all(order, <<>>, <<>>).files = files

\* C7 amended: when the normalized filenames of the entries are pairwise
\* distinct and no entry's extraction reaches block 560, the files left by
\* the extraction pass are the same for every order of extraction.
C7_AnyOrder ==
    (/\ Ended
     /\ \A m, n \in 1..Len(dir) : m # n => Normalized(dir[m]) # Normalized(dir[n])
     /\ \A n \in 1..Len(dir) : ~Overruns(dir[n])) =>
        \A order \in Orders(dir) :
            /\ ~extract_all(order, <<>>, <<>>).raised
            /\ extract_all(order, <<>>, <<>>).files = files

\* two files of different content were extracted
C7_Witness ==
    /\ pc = "done"
    /\ Len(dir) = 2
    /\ Cardinality(DOMAIN files) = 2
    /\ \E x, y \in DOMAIN files : files[x] # files[y] /\ files[x] # <<>> /\ files[y] # <<>>

\* the tables invert_table accepts: every value in 0..len-1, none twice
IsBijection(table) ==
    /\ \A i \in 1..Len(table) : table[i] >= 0 /\ table[i] < Len(table)
    /\ \A i, j \in 1..Len(table) : i # j => table[i] # table[j]

\* C8: invert_table raises, returning no table, when a value of its input is
\* outside 0..len-1 or occurs twice; otherwise it returns the table with
\* inverse[table[i]] = i for every i.
C8_InvertRaisesOrInverts ==
    (pc \in {"raised", "inverted"}) =>
        /\ (pc = "raised") <=> ~IsBijection(arg)
        /\ pc = "raised" => ret.exc # "" /\ ret.value = <<>>
        /\ pc = "inverted" =>
             /\ ret.exc = ""
             /\ Len(ret.value) = Len(arg)
             /\ \A i \in 0..(Len(arg) - 1) : ret.value[arg[i + 1] + 1] = i

\* a table of in-range values with one of them twice was refused
C8_Witness ==
    /\ pc = "raised"
    /\ ret.exc = "Table elements not unique"
    /\ \A i \in 1..Len(arg) : arg[i] >= 0 /\ arg[i] < Len(arg)

\* C9: compose_table(T, invert_table(T)) is the identity table for every
\* permutation table T.
C9_ComposeWithInverse ==
    pc = "composed" =>
        /\ ret.exc = ""
        /\ ret.value = [i \in 1..Len(arg) |-> i - 1]

\* the CP/M table composed with its inverse
C9_Witness == pc = "composed" /\ arg = cpm_to_phys /\ ret.value[16] = 15

\* C10: the date of an entry is the 16-bit value v read low byte first from
\* directory offsets 920+2i and 920+2i+1, printed as year.month.day with
\* day = v mod 32, month = (v div 32) mod 16, year = 1976 + v div 512, so that
\* v = (year-1976)*512 + month*32 + day; 0 gives 1976.00.00, 549 gives 1977.01.05.
C10_DateFields ==
    (pc = "list" /\ Len(dir) = 1) =>
        LET i == CHOOSE s \in DOMAIN image.ents : TRUE
            v == image.ents[i].date
            d == dir[1].date
            year == ParseInt(SubSeq(d, 1, 4))
            month == ParseInt(SubSeq(d, 6, 7))
            day == ParseInt(SubSeq(d, 9, 10))
        IN  /\ raw_dir(920 + 2 * i) = v % 256
            /\ raw_dir(920 + 2 * i + 1) = v \div 256
            /\ Len(d) = 10 /\ d[5] = 46 /\ d[8] = 46
            /\ day = v % 32
            /\ month = (v \div 32) % 16
            /\ year = 1976 + v \div 512
            /\ v = (year - 1976) * 512 + month * 32 + day
            /\ v = 0 => d = <<49, 57, 55, 54, 46, 48, 48, 46, 48, 48>>
            /\ v = 549 => d = <<49, 57, 55, 55, 46, 48, 49, 46, 48, 53>>

\* a date with month 15 and day 31, which no calendar holds, was decoded
C10_Witness ==
    /\ pc = "list"
    /\ Len(dir) = 1
    /\ dir[1].date = <<50, 49, 48, 51, 46, 49, 53, 46, 51, 49>>

====
